---- MODULE Spec2Model ----
(***************************************************************************)
(* Message store, HTTP message API and real-time gateway of the group chat *)
(* service.                                                                *)
(*                                                                         *)
(* Every request or socket event runs as an async handler.  A handler is   *)
(* suspended only at an awaited store call; the code between two awaits    *)
(* runs to completion (one Node.js event loop, no preemption).  One action *)
(* of this module is therefore: the awaited store call takes effect, its   *)
(* result is delivered to the handler, and the handler runs up to its next *)
(* awaited store call.  The field pc of a handler names the store call it  *)
(* is suspended at.  An await that performs no store call (markAsRead when *)
(* the user is already in readBy) does not suspend the handler.            *)
(*                                                                         *)
(* The store is the document collection behind the Message model.          *)
(* document.save() of a loaded document sends only the paths the handler   *)
(* modified: a scalar assignment becomes a $set of that path, an array     *)
(* push becomes an atomic $push of the pushed values; the filter is the    *)
(* document's _id alone.  Every store call may fail (validation, network,  *)
(* server): the await then throws into the handler's catch block.          *)
(***************************************************************************)
EXTENDS Integers, Sequences, FiniteSets, TLC

\* ---------------------------------------------------------------- bounds
MaxMsgs == 2        \* documents the message collection may hold
MaxReqs == 3        \* HTTP requests and socket chat / typing / read events
MaxRoomOps == 2     \* joinGroup / leaveGroup / disconnect events accepted
NumProcs == 2       \* handlers that may be in flight at the same time
MaxStored == 121    \* messages of the collection the paginated list reads

Users == {"u1", "u2"}
Groups == {"g1"}                \* the group whose traffic Spec follows
OtherGroups == {"g2"}           \* a second group, for cross-group lookups
AllGroups == Groups \cup OtherGroups
Conns == {"k1", "k2"}
LogicalIds == {"i1", "i2"}      \* data.id values a socket client may send
EditTexts == {"c1", "c2"}       \* req.body.content of an edit
NewText == "c0"                 \* content / data.text of a new message
None == "none"                  \* undefined / null
Kinds == {None, "image"}        \* req.body.type / data.type of a new message
Untyped == {None}               \* the requests that give no type
Procs == 1..NumProcs

VARIABLES
    msgs,       \* the message collection, in insertion order; _id = position
    members,    \* members[g]: the members array of group g
    h,          \* h[p]: the handler running in slot p
    rooms,      \* rooms[c]: the rooms connection c has joined
    connected,  \* connected[c]: connection c has not disconnected
    received,   \* received[c]: the events delivered to connection c, in order
    events,     \* every io.to(room).emit, in the order the emits ran
    clock,      \* number of store writes acknowledged so far
    last,       \* the latest HTTP response (for a socket handler: what it
                \* logged, as the status an HTTP handler would answer)
    nreq,       \* requests and socket message events accepted so far
    nroom       \* room events accepted so far

vars == <<msgs, members, h, rooms, connected, received, events, clock, last,
          nreq, nroom>>

\* ------------------------------------------------------------ documents
NoDoc ==
    [_id |-> 0, id |-> None, group |-> None, sender |-> None, content |-> None,
     type |-> "text", mediaUrl |-> None, mediaType |-> None,
     readBy |-> <<>>, deleted |-> FALSE, deletedBy |-> None,
     edited |-> FALSE, editedAt |-> 0, replyTo |-> 0, createdAt |-> 0]

\* new Message({...}) / Message.create({...}): the schema's defaults fill what
\* the caller leaves out (type 'text', readBy [], deleted false, edited
\* false).
NewMessage(id, group, sender, content, readBy, replyTo) ==
    [NoDoc EXCEPT !.id = id, !.group = group, !.sender = sender,
                  !.content = content, !.readBy = readBy, !.replyTo = replyTo]

\* data.type || 'text' (socket) and the default of { type = 'text' } (HTTP).
TypeOr(kind) == IF kind = None THEN "text" ELSE kind

\* data.mediaUrl and data.mediaType of a socket payload: a payload that
\* gives a type carries its media, one that gives none carries no media.
MediaUrl(kind) == IF kind = None THEN None ELSE "m1"
MediaType(kind) == IF kind = None THEN None ELSE "image/png"

Includes(seq, x) == \E i \in 1..Len(seq) : seq[i] = x

\* The token login signs carries id and role only, so req.user has no name.
ReqUserId(u) == u
ReqUserName(u) == None

\* ------------------------------------------------------ document methods
\* What each method does to the loaded copy before it calls save().
LocalMarkAsRead(doc, userName) == [doc EXCEPT !.readBy = Append(@, userName)]
LocalSoftDelete(doc, userId) == [doc EXCEPT !.deleted = TRUE, !.deletedBy = userId]
LocalEditNoFlag(doc, newText, at) ==
    [doc EXCEPT !.content = newText, !.editedAt = at]

LocalEdit(doc, newText, at) ==
    [doc EXCEPT !.content = newText, !.edited = TRUE, !.editedAt = at]

\* markAsRead's guard: a save is issued only for a defined user that the
\* loaded copy does not list yet.
NeedsMarkSave(doc, userName) == userName /= None /\ ~Includes(doc.readBy, userName)

\* The paths a method assigns (a $set each) and the values it pushes.
SetPaths(op) ==
    CASE op = "edit" -> {"content", "edited", "editedAt"}
      [] op = "delete" -> {"deleted", "deletedBy"}
      [] OTHER -> {}

Pushed(op, userName) ==
    IF op \in {"markRead", "readReceipt", "list"} THEN <<userName>> ELSE <<>>

\* save() of a loaded document: the stored document after the update.
SaveWhole(stored, local, op, userName) == local

SaveSetArray(stored, local, op, userName) ==
    [f \in DOMAIN stored |->
        IF f = "readBy" /\ Pushed(op, userName) /= <<>> THEN local.readBy
        ELSE IF f \in SetPaths(op) THEN local[f]
        ELSE stored[f]]

Save(stored, local, op, userName) ==
    [f \in DOMAIN stored |->
        IF f = "readBy" THEN stored.readBy \o Pushed(op, userName)
        ELSE IF f \in SetPaths(op) THEN local[f]
        ELSE stored[f]]

\* ---------------------------------------------------------------- store
Ids == 1..Len(msgs)

\* findOne: the first document in natural order that matches.
FirstMatch(S) == IF S = {} THEN 0 ELSE CHOOSE i \in S : \A j \in S : i <= j

\* group.members.includes(req.user.id).  No group is deleted here, so
\* Group.findById always finds the group of the request.
IsMember(g, u) == g \in DOMAIN members /\ u \in members[g]

\* ------------------------------------------------------------- handlers
Idle ==
    [op |-> "idle", pc |-> "idle", user |-> None, group |-> None, mid |-> 0,
     lid |-> None, content |-> None, replyTo |-> 0, doc |-> NoDoc, w |-> 0,
     got |-> {}, page |-> <<>>, total |-> 0, member |-> FALSE,
     conn |-> None, pageNo |-> 0, limit |-> 0]

NoResp == [op |-> None, user |-> None, group |-> None, mid |-> 0,
           replyTo |-> 0, status |-> 0, page |-> <<>>, total |-> 0,
           pageNo |-> 0, pages |-> 0, limit |-> 0]

\* new Date(): a clock that never runs backwards and may repeat a value.
Now == nreq + clock

Free == {p \in Procs : h[p].pc = "idle"}
Slot == CHOOSE p \in Free : \A q \in Free : p <= q

CanAccept == nreq < MaxReqs /\ Free /= {}

\* ------------------------------------------------------------- fan-out
Event(name, room, mid, lid, user, w) ==
    [n |-> Len(events) + 1, name |-> name, room |-> room, mid |-> mid,
     lid |-> lid, user |-> user, w |-> w]

\* io.to(room).emit(...): one pass over the room's sockets.
DeliverNewestFirst(rcv, c, room, ev) ==
    IF connected[c] /\ room \in rooms[c]
    THEN IF c = "k2" THEN <<ev>> \o rcv ELSE Append(rcv, ev)
    ELSE rcv

\* An emit to every connected socket, whatever rooms it joined.
DeliverToConnected(rcv, c, room, ev) ==
    IF connected[c] THEN Append(rcv, ev) ELSE rcv

Deliver(rcv, c, room, ev) ==
    IF connected[c] /\ room \in rooms[c] THEN Append(rcv, ev) ELSE rcv

Broadcast(ev) ==
    /\ events' = Append(events, ev)
    /\ received' = [c \in Conns |-> Deliver(received[c], c, ev.room, ev)]

NoBroadcast == UNCHANGED <<events, received>>

Resp(op, user, mid, status) ==
    [NoResp EXCEPT !.op = op, !.user = user, !.mid = mid, !.status = status]

\* res.status(status).json(...) (or the log line of a socket handler): the
\* handler is over.
Finish(p, status) ==
    /\ last' = [Resp(h[p].op, h[p].user, h[p].mid, status)
                   EXCEPT !.group = h[p].group, !.replyTo = h[p].replyTo]
    /\ h' = [h EXCEPT ![p] = Idle]

\* The awaited call threw: the catch block answers 500 (a socket handler
\* logs), nothing is emitted.
Throw(p) ==
    /\ Finish(p, 500)
    /\ NoBroadcast
    /\ UNCHANGED <<msgs, clock>>

\* ----------------------------------------------------------------- Init
\* Group g1 was created by u1 and group g2 by u2 (POST /api/groups: members =
\* [creatorId]); no message has been sent and no socket has joined a room.
Creator(g) == IF g \in Groups THEN "u1" ELSE "u2"

Init ==
    /\ msgs = <<>>
    /\ members = [g \in AllGroups |-> {Creator(g)}]
    /\ h = [p \in Procs |-> Idle]
    /\ rooms = [c \in Conns |-> {}]
    /\ connected = [c \in Conns |-> TRUE]
    /\ received = [c \in Conns |-> <<>>]
    /\ events = <<>>
    /\ clock = 0
    /\ last = NoResp
    /\ nreq = 0
    /\ nroom = 0

\* -------------------------------------------------- socket: chat message
\* socket.on('chat message'): the document is built from the payload and
\* saved; the event is emitted in the continuation of the save.
ChatMessageDoc(lid, u, g, kind) ==
    [NewMessage(lid, g, u, NewText, <<>>, 0)
        EXCEPT !._id = Len(msgs) + 1, !.type = TypeOr(kind),
               !.mediaUrl = MediaUrl(kind), !.mediaType = MediaType(kind),
               !.createdAt = Now + 1]

SocketChatMessageEmitFirst(lid, u, g, kind) ==
    /\ nreq < MaxReqs
    /\ nreq' = nreq + 1
    /\ \/ /\ Len(msgs) < MaxMsgs
          /\ msgs' = Append(msgs, ChatMessageDoc(lid, u, g, kind))
          /\ clock' = clock + 1
          /\ Broadcast(Event("chat message", g, Len(msgs) + 1, lid, u, clock + 1))
          /\ last' = Resp("chat", u, Len(msgs) + 1, 200)
       \/ /\ UNCHANGED <<msgs, clock>>
          /\ Broadcast(Event("chat message", g, 0, lid, u, 0))
          /\ last' = Resp("chat", u, 0, 500)
    /\ UNCHANGED <<members, h, rooms, connected, nroom>>

SocketChatMessage(lid, u, g, kind) ==
    /\ nreq < MaxReqs
    /\ nreq' = nreq + 1
    /\ \/ /\ Len(msgs) < MaxMsgs
          /\ msgs' = Append(msgs, ChatMessageDoc(lid, u, g, kind))
          /\ clock' = clock + 1
          /\ Broadcast(Event("chat message", g, Len(msgs) + 1, lid, u, clock + 1))
          /\ last' = Resp("chat", u, Len(msgs) + 1, 200)
       \/ /\ UNCHANGED <<msgs, clock>>
          /\ NoBroadcast
          /\ last' = Resp("chat", u, 0, 500)
    /\ UNCHANGED <<members, h, rooms, connected, nroom>>

\* -------------------------------------------------- socket: read receipt
\* socket.on('read receipt'): Message.findOne({ id: data.messageId }), then
\* markAsRead(data.user), then the emit.
\* The same lookup with an empty filter: the first stored message.
FirstStored(lid) == FirstMatch(Ids)

ByLogicalId(lid) == FirstMatch({i \in Ids : msgs[i].id = lid})

SocketReadReceipt(c, lid, u, g) ==
    /\ CanAccept
    /\ connected[c]
    /\ nreq' = nreq + 1
    /\ LET p == Slot
           m == ByLogicalId(lid)
       IN \/ /\ m = 0
             /\ last' = Resp("readReceipt", u, 0, 404)
             /\ NoBroadcast
             /\ UNCHANGED h
          \/ /\ m /= 0
             /\ ~NeedsMarkSave(msgs[m], u)
             /\ Broadcast(Event("messageRead", g, m, lid, u, 0))
             /\ last' = Resp("readReceipt", u, m, 200)
             /\ UNCHANGED h
          \/ /\ m /= 0
             /\ NeedsMarkSave(msgs[m], u)
             /\ h' = [h EXCEPT ![p] =
                        [Idle EXCEPT !.op = "readReceipt", !.pc = "save",
                                     !.member = IsMember(g, u),
                                     !.user = u, !.group = g, !.mid = m,
                                     !.lid = lid, !.conn = c,
                                     !.doc = LocalMarkAsRead(msgs[m], u)]]
             /\ NoBroadcast
             /\ UNCHANGED last
          \/ /\ last' = Resp("readReceipt", u, 0, 500)
             /\ NoBroadcast
             /\ UNCHANGED h
    /\ UNCHANGED <<msgs, members, rooms, connected, clock, nroom>>

\* ------------------------------------------------------- HTTP: mark read
\* POST /:groupId/messages/:messageId/read up to Message.findById.
HttpMarkRead(u, g, mid) ==
    /\ CanAccept
    /\ nreq' = nreq + 1
    /\ LET p == Slot
       IN \/ /\ ~IsMember(g, ReqUserId(u))
             /\ last' = Resp("markRead", u, mid, 403)
             /\ UNCHANGED h
          \/ /\ IsMember(g, ReqUserId(u))
             /\ h' = [h EXCEPT ![p] =
                        [Idle EXCEPT !.op = "markRead", !.pc = "findById",
                                     !.member = IsMember(g, u),
                                     !.user = u, !.group = g, !.mid = mid]]
             /\ UNCHANGED last
          \/ /\ last' = Resp("markRead", u, mid, 500)
             /\ UNCHANGED h
    /\ NoBroadcast
    /\ UNCHANGED <<msgs, members, rooms, connected, clock, nroom>>

\* Message.findById(messageId) answered; markAsRead(req.user.id) up to its
\* save.
MarkReadFindById(p) ==
    /\ h[p].op = "markRead" /\ h[p].pc = "findById"
    /\ LET m == h[p].mid
           u == ReqUserId(h[p].user)
       IN \/ /\ m \notin Ids
             /\ Finish(p, 404)
             /\ NoBroadcast
          \/ /\ m \in Ids
             /\ ~NeedsMarkSave(msgs[m], u)
             /\ Broadcast(Event("messageRead", h[p].group, m, None, u, 0))
             /\ Finish(p, 200)
          \/ /\ m \in Ids
             /\ NeedsMarkSave(msgs[m], u)
             /\ h' = [h EXCEPT ![p].pc = "save",
                               ![p].doc = LocalMarkAsRead(msgs[m], u)]
             /\ NoBroadcast
             /\ UNCHANGED last
          \/ /\ Finish(p, 500)
             /\ NoBroadcast
    /\ UNCHANGED <<msgs, members, rooms, connected, clock, nreq, nroom>>

\* The same continuation emitting with socket.to(room): the room's sockets
\* but the one the receipt came from.
MarkReadSaveToOthers(p) ==
    /\ h[p].op \in {"markRead", "readReceipt"} /\ h[p].pc = "save"
    /\ \/ /\ msgs' = [msgs EXCEPT ![h[p].mid] =
                          Save(@, h[p].doc, h[p].op, h[p].user)]
          /\ clock' = clock + 1
          /\ LET ev == Event("messageRead", h[p].group, h[p].mid, h[p].lid,
                            h[p].user, clock + 1)
             IN /\ events' = Append(events, ev)
                /\ received' = [d \in Conns |->
                                  IF d /= h[p].conn
                                  THEN Deliver(received[d], d, ev.room, ev)
                                  ELSE received[d]]
          /\ Finish(p, 200)
       \/ Throw(p)
    /\ UNCHANGED <<members, rooms, connected, nreq, nroom>>

\* markAsRead's save() answered (HTTP mark-read and socket read receipt);
\* the handler emits 'messageRead'.
MarkReadSave(p) ==
    /\ h[p].op \in {"markRead", "readReceipt"} /\ h[p].pc = "save"
    /\ \/ /\ msgs' = [msgs EXCEPT ![h[p].mid] =
                          Save(@, h[p].doc, h[p].op, h[p].user)]
          /\ clock' = clock + 1
          /\ Broadcast(Event("messageRead", h[p].group, h[p].mid, h[p].lid,
                             h[p].user, clock + 1))
          /\ Finish(p, 200)
       \/ Throw(p)
    /\ UNCHANGED <<members, rooms, connected, nreq, nroom>>

\* ---------------------------------------------------- HTTP: edit, delete
\* The same lookup without its deleted filter, and without its sender filter.
OwnStored(mid, g, u) ==
    FirstMatch({i \in Ids : /\ i = mid
                            /\ msgs[i].group = g
                            /\ msgs[i].sender = ReqUserId(u)})

LiveOfAnySender(mid, g, u) ==
    FirstMatch({i \in Ids : /\ i = mid
                            /\ msgs[i].group = g
                            /\ msgs[i].deleted = FALSE})

\* Message.findOne({ _id, group, sender: req.user.id, deleted: false })
OwnLive(mid, g, u) ==
    FirstMatch({i \in Ids : /\ i = mid
                            /\ msgs[i].group = g
                            /\ msgs[i].sender = ReqUserId(u)
                            /\ msgs[i].deleted = FALSE})

\* PUT /:groupId/messages/:messageId up to the save() inside edit().
HttpEdit(u, g, mid, text) ==
    /\ CanAccept
    /\ nreq' = nreq + 1
    /\ LET p == Slot
           m == OwnLive(mid, g, u)
       IN \/ /\ m = 0
             /\ last' = Resp("edit", u, mid, 404)
             /\ UNCHANGED h
          \/ /\ m /= 0
             /\ h' = [h EXCEPT ![p] =
                        [Idle EXCEPT !.op = "edit", !.pc = "save", !.user = u,
                                     !.member = IsMember(g, u),
                                     !.group = g, !.mid = m, !.content = text,
                                     !.doc = LocalEdit(msgs[m], text, Now + 1)]]
             /\ UNCHANGED last
          \/ /\ last' = Resp("edit", u, mid, 500)
             /\ UNCHANGED h
    /\ NoBroadcast
    /\ UNCHANGED <<msgs, members, rooms, connected, clock, nroom>>

\* edit()'s save() answered; the handler goes on to populate('sender').
EditSave(p) ==
    /\ h[p].op = "edit" /\ h[p].pc = "save"
    /\ \/ /\ msgs' = [msgs EXCEPT ![h[p].mid] =
                          Save(@, h[p].doc, h[p].op, h[p].user)]
          /\ clock' = clock + 1
          /\ h' = [h EXCEPT ![p].pc = "populateSender", ![p].w = clock + 1]
          /\ NoBroadcast
          /\ UNCHANGED last
       \/ Throw(p)
    /\ UNCHANGED <<members, rooms, connected, nreq, nroom>>

\* DELETE /:groupId/messages/:messageId up to the save() inside softDelete().
HttpDelete(u, g, mid) ==
    /\ CanAccept
    /\ nreq' = nreq + 1
    /\ LET p == Slot
           m == OwnLive(mid, g, u)
       IN \/ /\ m = 0
             /\ last' = Resp("delete", u, mid, 404)
             /\ UNCHANGED h
          \/ /\ m /= 0
             /\ h' = [h EXCEPT ![p] =
                        [Idle EXCEPT !.op = "delete", !.pc = "save",
                                     !.user = u, !.member = IsMember(g, u),
                                     !.group = g, !.mid = m,
                                     !.doc = LocalSoftDelete(msgs[m], ReqUserId(u))]]
             /\ UNCHANGED last
          \/ /\ last' = Resp("delete", u, mid, 500)
             /\ UNCHANGED h
    /\ NoBroadcast
    /\ UNCHANGED <<msgs, members, rooms, connected, clock, nroom>>

\* softDelete()'s save() answered; the handler emits 'messageDeleted'.
DeleteSave(p) ==
    /\ h[p].op = "delete" /\ h[p].pc = "save"
    /\ \/ /\ msgs' = [msgs EXCEPT ![h[p].mid] =
                          Save(@, h[p].doc, h[p].op, h[p].user)]
          /\ clock' = clock + 1
          /\ Broadcast(Event("messageDeleted", h[p].group, h[p].mid, None,
                             ReqUserId(h[p].user), clock + 1))
          /\ Finish(p, 200)
       \/ Throw(p)
    /\ UNCHANGED <<members, rooms, connected, nreq, nroom>>

\* ---------------------------------------------------------- HTTP: create
\* The document Message.create() is called with; createdAt is stamped when
\* the call is made.
CreateDoc(u, g, replyTo, kind, at) ==
    [NewMessage(None, g, ReqUserId(u), NewText, <<ReqUserId(u)>>, replyTo)
        EXCEPT !.type = TypeOr(kind), !.createdAt = at]

\* Message.findById(replyTo): any stored message, of any group, deleted or
\* not.
AnyParent(replyTo, g) == IF replyTo \in Ids THEN replyTo ELSE 0

\* Message.findOne({ _id: replyTo, group, deleted: false })
LiveParent(replyTo, g) ==
    FirstMatch({i \in Ids : /\ i = replyTo
                            /\ msgs[i].group = g
                            /\ msgs[i].deleted = FALSE})

\* POST /:groupId/messages up to the parent lookup (a reply) or up to
\* Message.create (no replyTo).
HttpCreate(u, g, replyTo, kind) ==
    /\ CanAccept
    /\ nreq' = nreq + 1
    /\ LET p == Slot
       IN \/ /\ ~IsMember(g, ReqUserId(u))
             /\ last' = Resp("create", u, 0, 403)
             /\ UNCHANGED h
          \/ /\ IsMember(g, ReqUserId(u))
             /\ h' = [h EXCEPT ![p] =
                        [Idle EXCEPT !.op = "create", !.user = u, !.group = g,
                                     !.member = IsMember(g, u),
                                     !.replyTo = replyTo,
                                     !.pc = IF replyTo /= 0 THEN "findParent"
                                                            ELSE "create",
                                     !.doc = CreateDoc(u, g, replyTo, kind,
                                                       Now + 1)]]
             /\ UNCHANGED last
          \/ /\ last' = Resp("create", u, 0, 500)
             /\ UNCHANGED h
    /\ NoBroadcast
    /\ UNCHANGED <<msgs, members, rooms, connected, clock, nroom>>

\* The parent lookup answered.
CreateFindParent(p) ==
    /\ h[p].op = "create" /\ h[p].pc = "findParent"
    /\ \/ /\ LiveParent(h[p].replyTo, h[p].group) = 0
          /\ Finish(p, 404)
       \/ /\ LiveParent(h[p].replyTo, h[p].group) /= 0
          /\ h' = [h EXCEPT ![p].pc = "create", ![p].doc.createdAt = Now]
          /\ UNCHANGED last
       \/ Finish(p, 500)
    /\ NoBroadcast
    /\ UNCHANGED <<msgs, members, rooms, connected, clock, nreq, nroom>>

\* Message.create answered; the handler goes on to populate('sender').
CreateInsert(p) ==
    /\ h[p].op = "create" /\ h[p].pc = "create"
    /\ \/ /\ Len(msgs) < MaxMsgs
          /\ msgs' = Append(msgs, [h[p].doc EXCEPT !._id = Len(msgs) + 1])
          /\ clock' = clock + 1
          /\ h' = [h EXCEPT ![p].pc = "populateSender", ![p].w = clock + 1,
                            ![p].mid = Len(msgs) + 1,
                            ![p].doc._id = Len(msgs) + 1]
          /\ NoBroadcast
          /\ UNCHANGED last
       \/ Throw(p)
    /\ UNCHANGED <<members, rooms, connected, nreq, nroom>>

\* ------------------------------------------- HTTP: populate and fan-out
\* await message.populate('sender', ...) answered (create and edit).
PopulateSender(p) ==
    /\ h[p].op \in {"create", "edit"} /\ h[p].pc = "populateSender"
    /\ \/ /\ h' = [h EXCEPT ![p].pc = "populateReplyTo"]
          /\ UNCHANGED last
       \/ Finish(p, 500)
    /\ NoBroadcast
    /\ UNCHANGED <<msgs, members, rooms, connected, clock, nreq, nroom>>

EventName(op) == IF op = "create" THEN "newMessage" ELSE "messageEdited"

\* await message.populate('replyTo', ...) answered; the handler emits the
\* loaded document and responds.
PopulateReplyTo(p) ==
    /\ h[p].op \in {"create", "edit"} /\ h[p].pc = "populateReplyTo"
    /\ \/ /\ Broadcast(Event(EventName(h[p].op), h[p].group, h[p].mid, None,
                             ReqUserId(h[p].user), h[p].w))
          /\ Finish(p, IF h[p].op = "create" THEN 201 ELSE 200)
       \/ /\ Finish(p, 500)
          /\ NoBroadcast
    /\ UNCHANGED <<msgs, members, rooms, connected, clock, nreq, nroom>>

\* ------------------------------------------------------------ HTTP: list
DefaultPage == 1
DefaultLimit == 50

\* req.query.page and req.query.limit: absent, or the string the client put
\* in the URL.
NoQuery == {None}
PageQueries == {None, "abc", "0", "-1", "1", "2", "3"}
LimitQueries == {None, "abc", "0", "-5", "2", "50", "100"}

\* parseInt(string): the integer a decimal string denotes, NaN for a string
\* that does not start with a number and for undefined.
NaN == [nan |-> TRUE, val |-> 0]
Num(n) == [nan |-> FALSE, val |-> n]
ParseInt(q) ==
    CASE q = "-5" -> Num(0 - 5)
      [] q = "-1" -> Num(0 - 1)
      [] q = "0" -> Num(0)
      [] q = "1" -> Num(1)
      [] q = "2" -> Num(2)
      [] q = "3" -> Num(3)
      [] q = "50" -> Num(50)
      [] q = "100" -> Num(100)
      [] OTHER -> NaN

\* value || dflt: NaN and 0 are falsy, every other number is kept.
OrDefault(v, dflt) == IF v.nan \/ v.val = 0 THEN dflt ELSE v.val

\* Math.ceil(total / limit) for a limit other than 0.
CeilDiv(total, limit) ==
    IF limit > 0 THEN (total + limit - 1) \div limit
    ELSE 0 - (total \div (0 - limit))

\* { group: groupId }: every message of the group, deleted or not.
StoredIn(g) == {i \in Ids : msgs[i].group = g}

\* The same filter leaving out the replies to a deleted message.
LiveThreads(g) ==
    {i \in Ids : /\ msgs[i].group = g /\ msgs[i].deleted = FALSE
                  /\ msgs[i].replyTo \in Ids => ~msgs[msgs[i].replyTo].deleted}

\* { group: groupId, deleted: false }
Live(g) == {i \in Ids : msgs[i].group = g /\ msgs[i].deleted = FALSE}

\* .sort({ createdAt: -1 }): newest first.
NewestFirst(i, j) ==
    \/ msgs[i].createdAt > msgs[j].createdAt
    \/ msgs[i].createdAt = msgs[j].createdAt /\ i < j

\* .sort({ createdAt: 1 }): ascending createdAt, equal stamps in insertion
\* order.
Before(i, j) ==
    \/ msgs[i].createdAt < msgs[j].createdAt
    \/ msgs[i].createdAt = msgs[j].createdAt /\ i < j

Rank(S, i) == Cardinality({j \in S : Before(j, i)}) + 1

Sorted(S) ==
    SortSeq(SelectSeq([i \in 1..Len(msgs) |-> i], LAMBDA i : i \in S), Before)

\* .skip(skip).limit(limit): the store rejects a negative skip; a negative
\* limit is sent as its absolute value.
Min(a, b) == IF a < b THEN a ELSE b
Abs(n) == IF n < 0 THEN 0 - n ELSE n
SkipLimit(seq, skip, limit) ==
    SubSeq(seq, skip + 1, Min(Len(seq), skip + Abs(limit)))

\* The same query without its skip.
FindPageUnskipped(g, page, limit) ==
    LET ids == SkipLimit(Sorted(Live(g)), 0, limit)
    IN [k \in 1..Len(ids) |-> msgs[ids[k]]]

\* const skip = (page - 1) * limit
Skip(page, limit) == (page - 1) * limit

\* Message.find(...).sort(...).skip(...).limit(...): the documents loaded.
FindPage(g, page, limit) ==
    LET ids == SkipLimit(Sorted(Live(g)), Skip(page, limit), limit)
    IN [k \in 1..Len(ids) |-> msgs[ids[k]]]

\* Message.countDocuments(...)
CountLive(g) == Cardinality(Live(g))

\* GET /:groupId/messages up to the two queries of Promise.all.
HttpList(u, g, pageQ, limitQ) ==
    /\ CanAccept
    /\ nreq' = nreq + 1
    /\ LET p == Slot
       IN \/ /\ ~IsMember(g, ReqUserId(u))
             /\ last' = Resp("list", u, 0, 403)
             /\ UNCHANGED h
          \/ /\ IsMember(g, ReqUserId(u))
             /\ h' = [h EXCEPT ![p] =
                        [Idle EXCEPT !.op = "list", !.pc = "query",
                                     !.member = IsMember(g, u),
                                     !.user = u, !.group = g,
                                     !.pageNo = OrDefault(ParseInt(pageQ),
                                                          DefaultPage),
                                     !.limit = OrDefault(ParseInt(limitQ),
                                                         DefaultLimit)]]
             /\ UNCHANGED last
          \/ /\ last' = Resp("list", u, 0, 500)
             /\ UNCHANGED h
    /\ NoBroadcast
    /\ UNCHANGED <<msgs, members, rooms, connected, clock, nroom>>

\* messages.map(message => message.readBy.includes(req.user.name) ? null :
\* message.markAsRead(req.user.name)): the documents of the page a save is
\* issued for, and the collection once those saves are applied.
ToMark(page, userName) ==
    {k \in 1..Len(page) : NeedsMarkSave(page[k], userName)}

MarkPage(stored, page, userName) ==
    [i \in 1..Len(stored) |->
        IF \E k \in ToMark(page, userName) : page[k]._id = i
        THEN Save(stored[i],
                  LocalMarkAsRead(page[CHOOSE k \in ToMark(page, userName) :
                                           page[k]._id = i], userName),
                  "list", userName)
        ELSE stored[i]]

PageIds(page) == [k \in 1..Len(page) |-> page[k]._id]

\* The same continuation writing the loaded documents of the page back whole.
ListRespondWholeDocs(p, page, total) ==
    /\ msgs' = [i \in 1..Len(msgs) |->
                  IF \E k \in 1..Len(page) : page[k]._id = i
                  THEN page[CHOOSE k \in 1..Len(page) : page[k]._id = i]
                  ELSE msgs[i]]
    /\ clock' = clock + Len(page)
    /\ last' = [Resp("list", h[p].user, 0, 200)
                   EXCEPT !.group = h[p].group, !.page = PageIds(page),
                          !.total = total, !.pageNo = h[p].pageNo,
                          !.pages = CeilDiv(total, h[p].limit),
                          !.limit = h[p].limit]
    /\ h' = [h EXCEPT ![p] = Idle]

\* Both queries answered: the page is marked as read and the envelope sent.
ListRespond(p, page, total) ==
    /\ msgs' = MarkPage(msgs, page, ReqUserName(h[p].user))
    /\ clock' = clock + Cardinality(ToMark(page, ReqUserName(h[p].user)))
    /\ last' = [Resp("list", h[p].user, 0, 200)
                   EXCEPT !.group = h[p].group, !.page = PageIds(page),
                          !.total = total, !.pageNo = h[p].pageNo,
                          !.pages = CeilDiv(total, h[p].limit),
                          !.limit = h[p].limit]
    /\ h' = [h EXCEPT ![p] = Idle]

\* Message.find(...) answered.
ListFind(p) ==
    /\ h[p].op = "list" /\ h[p].pc = "query" /\ "find" \notin h[p].got
    /\ LET page == FindPage(h[p].group, h[p].pageNo, h[p].limit)
       IN \/ /\ Skip(h[p].pageNo, h[p].limit) >= 0
             /\ "count" \in h[p].got
             /\ ListRespond(p, page, h[p].total)
          \/ /\ Skip(h[p].pageNo, h[p].limit) >= 0
             /\ "count" \notin h[p].got
             /\ h' = [h EXCEPT ![p].got = @ \cup {"find"}, ![p].page = page]
             /\ UNCHANGED <<msgs, clock, last>>
          \/ /\ Finish(p, 500)
             /\ UNCHANGED <<msgs, clock>>
    /\ NoBroadcast
    /\ UNCHANGED <<members, rooms, connected, nreq, nroom>>

\* Message.countDocuments(...) answered.
ListCount(p) ==
    /\ h[p].op = "list" /\ h[p].pc = "query" /\ "count" \notin h[p].got
    /\ LET total == CountLive(h[p].group)
       IN \/ /\ "find" \in h[p].got
             /\ ListRespond(p, h[p].page, total)
          \/ /\ "find" \notin h[p].got
             /\ h' = [h EXCEPT ![p].got = @ \cup {"count"}, ![p].total = total]
             /\ UNCHANGED <<msgs, clock, last>>
          \/ /\ Finish(p, 500)
             /\ UNCHANGED <<msgs, clock>>
    /\ NoBroadcast
    /\ UNCHANGED <<members, rooms, connected, nreq, nroom>>

\* ------------------------------------------------------ group membership
\* POST /:id/join: the user is pushed onto members unless already there.
GroupJoin(u, g) ==
    /\ nreq < MaxReqs
    /\ nreq' = nreq + 1
    /\ ReqUserId(u) \notin members[g]
    /\ members' = [members EXCEPT ![g] = @ \cup {ReqUserId(u)}]
    /\ last' = [Resp("join", u, 0, 200) EXCEPT !.group = g]
    /\ UNCHANGED <<msgs, h, rooms, connected, received, events, clock, nroom>>

\* POST /:id/leave: members.filter(id => id.toString() !== req.user.id),
\* whoever the user is; the group (with its creator set) is answered.
GroupLeave(u, g) ==
    /\ nreq < MaxReqs
    /\ nreq' = nreq + 1
    /\ ReqUserId(u) \in members[g]
    /\ members' = [members EXCEPT ![g] = @ \ {ReqUserId(u)}]
    /\ last' = [Resp("leave", u, 0, 200) EXCEPT !.group = g]
    /\ UNCHANGED <<msgs, h, rooms, connected, received, events, clock, nroom>>

\* ------------------------------------------------------- socket: rooms
\* socket.on('joinGroup'): socket.join(groupId)
JoinGroup(c, g) ==
    /\ nroom < MaxRoomOps
    /\ nroom' = nroom + 1
    /\ connected[c]
    /\ g \notin rooms[c]
    /\ rooms' = [rooms EXCEPT ![c] = @ \cup {g}]
    /\ UNCHANGED <<msgs, members, h, connected, received, events, clock, last,
                   nreq>>

\* socket.on('leaveGroup'): socket.leave(groupId)
LeaveGroup(c, g) ==
    /\ nroom < MaxRoomOps
    /\ nroom' = nroom + 1
    /\ connected[c]
    /\ g \in rooms[c]
    /\ rooms' = [rooms EXCEPT ![c] = @ \ {g}]
    /\ UNCHANGED <<msgs, members, h, connected, received, events, clock, last,
                   nreq>>

\* A disconnect that closes the socket and keeps its room memberships.
DisconnectKeepsRooms(c) ==
    /\ nroom < MaxRoomOps
    /\ nroom' = nroom + 1
    /\ connected[c]
    /\ connected' = [connected EXCEPT ![c] = FALSE]
    /\ UNCHANGED rooms
    /\ UNCHANGED <<msgs, members, h, received, events, clock, last, nreq>>

\* socket.on('disconnect'): the server drops the socket from all its rooms.
Disconnect(c) ==
    /\ nroom < MaxRoomOps
    /\ nroom' = nroom + 1
    /\ connected[c]
    /\ connected' = [connected EXCEPT ![c] = FALSE]
    /\ rooms' = [rooms EXCEPT ![c] = {}]
    /\ UNCHANGED <<msgs, members, h, received, events, clock, last, nreq>>

\* ------------------------------------------------------- socket: typing
\* An emit to the whole room, the emitting socket included.
DeliverToAll(rcv, d, c, room, ev) == Deliver(rcv, d, room, ev)

\* socket.to(room).emit(...): the room's sockets but the emitting one.

DeliverToOthers(rcv, d, c, room, ev) ==
    IF d /= c THEN Deliver(rcv, d, room, ev) ELSE rcv

\* socket.on('user typing'): nothing is stored; the event goes to the room.
UserTyping(c, u, g) ==
    /\ nreq < MaxReqs
    /\ nreq' = nreq + 1
    /\ connected[c]
    /\ LET ev == Event("user typing", g, 0, None, u, 0)
       IN /\ events' = Append(events, ev)
          /\ received' = [d \in Conns |->
                            DeliverToOthers(received[d], d, c, g, ev)]
    /\ UNCHANGED <<msgs, members, h, rooms, connected, clock, last, nroom>>

\* ------------------------------------------------------------------ Next
Next ==
    \/ \E lid \in LogicalIds, u \in Users, g \in Groups, kind \in Untyped :
          SocketChatMessage(lid, u, g, kind)
    \/ \E c \in Conns, lid \in LogicalIds, u \in Users, g \in Groups :
          SocketReadReceipt(c, lid, u, g)
    \/ \E u \in Users, g \in Groups, mid \in 1..MaxMsgs : HttpMarkRead(u, g, mid)
    \/ \E u \in Users, g \in Groups, mid \in 1..MaxMsgs, text \in EditTexts :
          HttpEdit(u, g, mid, text)
    \/ \E u \in Users, g \in Groups, mid \in 1..MaxMsgs : HttpDelete(u, g, mid)
    \/ \E u \in Users, g \in Groups, replyTo \in 0..MaxMsgs, kind \in Untyped :
          HttpCreate(u, g, replyTo, kind)
    \/ \E u \in Users, g \in Groups, pageQ \in NoQuery, limitQ \in NoQuery :
          HttpList(u, g, pageQ, limitQ)
    \/ \E u \in Users, g \in Groups : GroupJoin(u, g)
    \/ \E u \in Users, g \in Groups : GroupLeave(u, g)
    \/ \E p \in Procs :
          \/ MarkReadFindById(p)
          \/ MarkReadSave(p)
          \/ EditSave(p)
          \/ DeleteSave(p)
          \/ CreateFindParent(p)
          \/ CreateInsert(p)
          \/ PopulateSender(p)
          \/ PopulateReplyTo(p)
          \/ ListFind(p)
          \/ ListCount(p)

Spec == Init /\ [][Next]_vars

\* The gateway with its rooms: the socket events and the HTTP create path
\* that shares the fan-out with them.
GatewayNext ==
    \/ \E c \in Conns, g \in Groups : JoinGroup(c, g)
    \/ \E c \in Conns, g \in Groups : LeaveGroup(c, g)
    \/ \E c \in Conns : Disconnect(c)
    \/ \E c \in Conns, u \in Users, g \in Groups : UserTyping(c, u, g)
    \/ \E lid \in LogicalIds, u \in Users, g \in Groups, kind \in Untyped :
          SocketChatMessage(lid, u, g, kind)
    \/ \E c \in Conns, lid \in LogicalIds, u \in Users, g \in Groups :
          SocketReadReceipt(c, lid, u, g)
    \/ \E u \in Users, g \in Groups, replyTo \in 0..MaxMsgs, kind \in Untyped :
          HttpCreate(u, g, replyTo, kind)
    \/ \E p \in Procs :
          \/ MarkReadSave(p)
          \/ CreateFindParent(p)
          \/ CreateInsert(p)
          \/ PopulateSender(p)
          \/ PopulateReplyTo(p)

GatewaySpec == Init /\ [][GatewayNext]_vars

\* The append paths over both groups and every type, with the soft-delete
\* that may remove the parent of a reply.
ThreadNext ==
    \/ \E lid \in LogicalIds, u \in Users, g \in AllGroups, kind \in Kinds :
          SocketChatMessage(lid, u, g, kind)
    \/ \E u \in Users, g \in AllGroups, replyTo \in 0..MaxMsgs, kind \in Kinds :
          HttpCreate(u, g, replyTo, kind)
    \/ \E u \in Users, g \in AllGroups, mid \in 1..MaxMsgs : HttpDelete(u, g, mid)
    \/ \E p \in Procs :
          \/ DeleteSave(p)
          \/ CreateFindParent(p)
          \/ CreateInsert(p)
          \/ PopulateSender(p)
          \/ PopulateReplyTo(p)

ThreadSpec == Init /\ [][ThreadNext]_vars

\* The list endpoint over a collection that already holds messages: group
\* g1 with MaxStored messages sent by u1 one after the other (or with three,
\* or with none), the second of them soft-deleted.  One list request is
\* followed at a time and nothing writes to the collection.
StoredSizes == {0, 3, MaxStored}

Stored(n) ==
    [i \in 1..n |->
        [NewMessage(None, "g1", "u1", NewText, <<"u1">>, 0)
            EXCEPT !._id = i, !.createdAt = i,
                   !.deleted = (i = 2),
                   !.deletedBy = IF i = 2 THEN "u1" ELSE None]]

PageInit ==
    /\ msgs \in {Stored(n) : n \in StoredSizes}
    /\ members = [g \in AllGroups |-> {Creator(g)}]
    /\ h = [p \in Procs |-> Idle]
    /\ rooms = [c \in Conns |-> {}]
    /\ connected = [c \in Conns |-> TRUE]
    /\ received = [c \in Conns |-> <<>>]
    /\ events = <<>>
    /\ clock = Len(msgs) + 1
    /\ last = NoResp
    /\ nreq = 0
    /\ nroom = 0

PageNext ==
    \/ \E u \in Users, g \in Groups, pageQ \in PageQueries,
          limitQ \in LimitQueries :
          Free = Procs /\ HttpList(u, g, pageQ, limitQ)
    \/ \E p \in Procs :
          \/ ListFind(p)
          \/ ListCount(p)

PageSpec == PageInit /\ [][PageNext]_vars

\* Mutations of one stored message: group g1 holds a message that u1 sent
\* over the socket (readBy still empty); edits, soft-deletes, mark-reads and
\* read receipts for it arrive and interleave.
SentBefore ==
    <<[NewMessage("i1", "g1", "u1", NewText, <<>>, 0)
          EXCEPT !._id = 1, !.createdAt = 1]>>

MutationInit ==
    /\ msgs = SentBefore
    /\ members = [g \in AllGroups |-> {Creator(g)}]
    /\ h = [p \in Procs |-> Idle]
    /\ rooms = [c \in Conns |-> {}]
    /\ connected = [c \in Conns |-> TRUE]
    /\ received = [c \in Conns |-> <<>>]
    /\ events = <<>>
    /\ clock = 1
    /\ last = NoResp
    /\ nreq = 0
    /\ nroom = 0

MutationNext ==
    \/ \E u \in Users, g \in Groups, mid \in 1..MaxMsgs, text \in EditTexts :
          HttpEdit(u, g, mid, text)
    \/ \E u \in Users, g \in Groups, mid \in 1..MaxMsgs : HttpDelete(u, g, mid)
    \/ \E u \in Users, g \in Groups, mid \in 1..MaxMsgs : HttpMarkRead(u, g, mid)
    \/ \E c \in Conns, lid \in LogicalIds, u \in Users, g \in Groups :
          SocketReadReceipt(c, lid, u, g)
    \/ \E p \in Procs :
          \/ MarkReadFindById(p)
          \/ MarkReadSave(p)
          \/ EditSave(p)
          \/ DeleteSave(p)
          \/ PopulateSender(p)
          \/ PopulateReplyTo(p)

MutationSpec == MutationInit /\ [][MutationNext]_vars

\* A thread: group g1 holds a message that u1 sent over the socket and a
\* reply to it that u1 created over HTTP; soft-deletes and list requests
\* arrive and interleave.
Thread ==
    <<SentBefore[1],
      [NewMessage(None, "g1", "u1", NewText, <<"u1">>, 1)
          EXCEPT !._id = 2, !.createdAt = 2]>>

ReplyInit ==
    /\ msgs = Thread
    /\ members = [g \in AllGroups |-> {Creator(g)}]
    /\ h = [p \in Procs |-> Idle]
    /\ rooms = [c \in Conns |-> {}]
    /\ connected = [c \in Conns |-> TRUE]
    /\ received = [c \in Conns |-> <<>>]
    /\ events = <<>>
    /\ clock = 2
    /\ last = NoResp
    /\ nreq = 0
    /\ nroom = 0

ReplyNext ==
    \/ \E u \in Users, g \in Groups, mid \in 1..MaxMsgs : HttpDelete(u, g, mid)
    \/ \E u \in Users, g \in Groups, pageQ \in NoQuery, limitQ \in NoQuery :
          HttpList(u, g, pageQ, limitQ)
    \/ \E p \in Procs :
          \/ DeleteSave(p)
          \/ ListFind(p)
          \/ ListCount(p)

ReplySpec == ReplyInit /\ [][ReplyNext]_vars

\* ======================================================== properties
Count(seq, x) == Cardinality({k \in 1..Len(seq) : seq[k] = x})

MessageEvents == {"chat message", "newMessage"}
MutationEvents == MessageEvents \cup {"messageEdited", "messageDeleted"}

\* The events appended to the log by the current step.
NewEvents == {events'[k] : k \in (Len(events) + 1)..Len(events')}

\* The step is one of handler p.
StepOf(p) == h'[p] /= h[p]

\* C1: no user is listed twice in a message's readBy, and when a markRead
\* call completes with success (HTTP mark-read, socket read receipt, the
\* list endpoint for the messages of its page) the calling user is listed.
C1_MarkReadExactlyOnce ==
    /\ \A i \in Ids : \A u \in Users : Count(msgs[i].readBy, u) <= 1
    /\ (last.op \in {"markRead", "readReceipt"} /\ last.status = 200)
          => Count(msgs[last.mid].readBy, last.user) = 1
    /\ (last.op = "list" /\ last.status = 200)
          => \A k \in 1..Len(last.page) :
                Count(msgs[last.page[k]].readBy, last.user) = 1

\* C2: every event that announces a mutation was emitted by a handler whose
\* store write had been acknowledged (w is the number of that write; a
\* handler whose write failed has none), and the store holds what the event
\* announces; a 'messageRead' event names a user the stored readBy lists.
C2_BroadcastAfterWrite ==
    \A k \in 1..Len(events) :
        LET e == events[k]
        IN /\ e.name \in MutationEvents => (e.w \in 1..clock /\ e.mid \in Ids)
           /\ e.name = "messageEdited" => msgs[e.mid].edited
           /\ e.name = "messageDeleted" => msgs[e.mid].deleted
           /\ e.name = "messageRead" =>
                (e.mid \in Ids /\ Includes(msgs[e.mid].readBy, e.user))

\* A message was broadcast, its soft-delete was broadcast, and the latest
\* handler ended in its catch block without an event of its own.
C2_Witness ==
    /\ Len(events) = 2
    /\ events[1].name \in MessageEvents
    /\ events[2].name = "messageDeleted"
    /\ nreq = 3
    /\ last.status = 500

\* C3: two connections receive the message events they both receive in the
\* same relative order.
PosIn(rcv, n) == CHOOSE k \in 1..Len(rcv) : rcv[k].n = n
Got(rcv) == {rcv[k].n : k \in {j \in 1..Len(rcv) : rcv[j].name \in MessageEvents}}

C5_NoEditOnceDeleted ==
    [][/\ \A i \in Ids :
            msgs[i].deleted =>
                /\ msgs'[i].content = msgs[i].content
                /\ msgs'[i].edited = msgs[i].edited
                /\ msgs'[i].editedAt = msgs[i].editedAt
       /\ \A e \in NewEvents :
            e.name = "messageEdited" => ~msgs[e.mid].deleted]_vars

\* C6: a socket 'chat message' or 'read receipt' whose user is not a member
\* of the target group changes no message and broadcasts nothing.
C6_SocketEventsAuthorized ==
    [][/\ \A lid \in LogicalIds, u \in Users, g \in Groups :
            (\/ \E kind \in Untyped : SocketChatMessage(lid, u, g, kind)
             \/ \E c \in Conns : SocketReadReceipt(c, lid, u, g))
                /\ ~IsMember(g, u)
            => UNCHANGED <<msgs, events>>
       /\ \A p \in Procs :
            (StepOf(p) /\ h[p].op = "readReceipt" /\ ~h[p].member)
            => UNCHANGED <<msgs, events>>]_vars

\* C7: an HTTP message request (list, create, edit, delete, mark-read) whose
\* user is not a member of the group when it arrives changes no message,
\* broadcasts nothing and is not answered with success.
HttpOps == {"list", "create", "edit", "delete", "markRead"}

C7_HttpMembershipChecked ==
    [][\A p \in Procs :
          (StepOf(p) /\ h[p].op \in HttpOps /\ ~h[p].member)
            => /\ UNCHANGED <<msgs, events>>
               /\ h'[p].pc = "idle" => last'.status \notin {200, 201}]_vars

\* C8: a message's deleted flag, once true, is true in every later state.
C8_DeletedNeverReverts ==
    [][\A i \in Ids : msgs[i].deleted => msgs'[i].deleted]_vars

\* A copy loaded before the delete was saved after it: the edit's write was
\* acknowledged after the delete's.
C8_Witness ==
    \E j, k \in 1..Len(events) :
        /\ events[j].name = "messageDeleted"
        /\ events[k].name = "messageEdited"
        /\ events[j].mid = events[k].mid
        /\ events[j].w < events[k].w
        /\ msgs[events[j].mid].deleted

\* C9: a user listed in a message's readBy is listed in every later state.
C9_ReadByOnlyGrows ==
    [][\A i \in Ids : \A u \in Users :
          Includes(msgs[i].readBy, u) => Includes(msgs'[i].readBy, u)]_vars

\* Two readers marked the message from copies loaded before either save.
C9_Witness ==
    \E i \in Ids :
        /\ msgs[i].id /= None
        /\ Includes(msgs[i].readBy, "u1")
        /\ Includes(msgs[i].readBy, "u2")
        /\ clock = 3

\* C10: no two stored messages have the same id, and a message keeps the
\* id it was created with (for a socket send the id of the payload).
C10_IdUniqueAndStable ==
    [][/\ \A i, j \in 1..Len(msgs') :
            (i /= j /\ msgs'[i].id /= None) => msgs'[i].id /= msgs'[j].id
       /\ \A i \in Ids :
            msgs'[i].id = msgs[i].id /\ msgs'[i]._id = msgs[i]._id]_vars

\* C11: a delete request for a message that is already soft-deleted is
\* answered 404 (500 when the lookup itself fails): no handler goes on to
\* softDelete, so deleted and deletedBy stay as they are, and no
\* 'messageDeleted' event is broadcast.
C11_DeleteOfDeletedNotFound ==
    [][\A u \in Users, g \in Groups, mid \in 1..MaxMsgs :
          (HttpDelete(u, g, mid) /\ mid \in Ids /\ msgs[mid].deleted)
            => /\ last'.status \in {404, 500}
               /\ UNCHANGED <<msgs, events, h>>]_vars

\* The sender of a deleted message asked to delete it again and got 404.
C11_Witness ==
    /\ last.op = "delete"
    /\ last.status = 404
    /\ last.mid \in Ids
    /\ msgs[last.mid].deleted
    /\ msgs[last.mid].sender = last.user
    /\ msgs[last.mid].deletedBy = last.user

\* What a step of list handler p loaded: the ids of the page its find query
\* returned and the total its count query returned.
LoadedPage(p) == IF h'[p].pc = "idle" THEN last'.page ELSE PageIds(h'[p].page)
LoadedTotal(p) == IF h'[p].pc = "idle" THEN last'.total ELSE h'[p].total
Answered(p) == h'[p].pc /= "idle" \/ last'.status = 200

\* C12: the find query of a list returns no message whose deleted flag is
\* true when the query runs, the count query counts none of them, and the
\* response carries the page and the total the queries returned.  By C8 a
\* message soft-deleted before the list call started is still deleted when
\* its queries run.
C12_ListExcludesDeleted ==
    [][\A p \in Procs :
          /\ (ListFind(p) /\ Answered(p)) =>
                /\ \A k \in 1..Len(LoadedPage(p)) :
                      /\ LoadedPage(p)[k] \in Ids
                      /\ ~msgs[LoadedPage(p)[k]].deleted
                /\ h'[p].pc = "idle" => last'.total = h[p].total
          /\ (ListCount(p) /\ Answered(p)) =>
                /\ LoadedTotal(p) =
                      Cardinality({i \in Ids : /\ msgs[i].group = h[p].group
                                               /\ ~msgs[i].deleted})
                /\ h'[p].pc = "idle" => last'.page = PageIds(h[p].page)]_vars

\* A list was answered for a group whose only message is soft-deleted: the
\* page is empty and the total is 0.
C12_Witness ==
    /\ last.op = "list"
    /\ last.status = 200
    /\ last.page = <<>>
    /\ last.total = 0
    /\ \E i \in Ids : msgs[i].group = last.group /\ msgs[i].deleted

\* C13: the find query of a list returns every message that is stored in
\* the group and not deleted when the query runs exactly once, in ascending
\* createdAt order (the default limit covers the whole group here).  A
\* message appended before the list call started is stored when the query
\* runs, whichever path appended it.
C13_ListShowsAppended ==
    [][\A p \in Procs :
          (ListFind(p) /\ Answered(p)) =>
             /\ \A i \in Ids :
                   (msgs[i].group = h[p].group /\ ~msgs[i].deleted)
                      => Count(LoadedPage(p), i) = 1
             /\ \A j, k \in 1..Len(LoadedPage(p)) :
                   j < k => msgs[LoadedPage(p)[j]].createdAt
                               <= msgs[LoadedPage(p)[k]].createdAt]_vars

\* A socket send and an HTTP create were both listed; the HTTP message was
\* stamped first and inserted second, and is listed first.
C13_Witness ==
    /\ last.op = "list"
    /\ last.status = 200
    /\ last.page = <<2, 1>>
    /\ msgs[1].id /= None
    /\ msgs[2].id = None
    /\ msgs[2].createdAt < msgs[1].createdAt

\* The step appended a message.
Appended == Len(msgs') = Len(msgs) + 1
Newest == msgs'[Len(msgs')]

\* C14: a message created by a successful append has readBy = <<sender>>
\* and, when the request gave no type, type 'text': on the socket 'chat
\* message' path and on the HTTP create path.
C14_AppendInitialState ==
    [][/\ \A lid \in LogicalIds, u \in Users, g \in AllGroups, kind \in Kinds :
            (SocketChatMessage(lid, u, g, kind) /\ Appended)
               => /\ Newest.readBy = <<u>>
                  /\ kind = None => Newest.type = "text"
       /\ \A u \in Users, g \in AllGroups, replyTo \in 0..MaxMsgs :
            (HttpCreate(u, g, replyTo, None) /\ h'[Slot].pc /= "idle")
               => h'[Slot].doc.type = "text"
       /\ \A p \in Procs :
            (CreateInsert(p) /\ Appended)
               => /\ Newest.readBy = <<ReqUserId(h[p].user)>>
                  /\ Newest.type = h[p].doc.type]_vars

\* C15: a create whose replyTo names no non-deleted message of the same
\* group (no such message, a soft-deleted one, or one of another group) is
\* answered 404 (500 when the lookup itself fails) and its handler ends
\* there: no message is inserted and nothing is broadcast.
C15_ReplyToMissingParent ==
    [][\A p \in Procs :
          (/\ CreateFindParent(p)
           /\ ~(/\ h[p].replyTo \in Ids
                /\ msgs[h[p].replyTo].group = h[p].group
                /\ ~msgs[h[p].replyTo].deleted))
            => /\ last'.status \in {404, 500}
               /\ h'[p] = Idle
               /\ UNCHANGED <<msgs, events>>]_vars

\* A reply in one group to a live message of the other group got 404.
C15_Witness ==
    /\ last.op = "create"
    /\ last.status = 404
    /\ last.replyTo \in Ids
    /\ ~msgs[last.replyTo].deleted
    /\ msgs[last.replyTo].group /= last.group

\* The message exists in the group, is not deleted, and u did not send it.
LiveOfOther(u, g, mid) ==
    /\ mid \in Ids
    /\ msgs[mid].group = g
    /\ ~msgs[mid].deleted
    /\ msgs[mid].sender /= ReqUserId(u)

C17_EditOfMissingNotFound ==
    [][\A u \in Users, g \in Groups, mid \in 1..MaxMsgs, text \in EditTexts :
          (HttpEdit(u, g, mid, text) /\ (mid \notin Ids \/ msgs[mid].deleted))
            => /\ last'.status \in {404, 500}
               /\ UNCHANGED <<msgs, events, h>>]_vars

\* The sender of a soft-deleted message asked to edit it and got 404; the
\* message was never edited.
C17_Witness ==
    /\ last.op = "edit"
    /\ last.status = 404
    /\ last.mid \in Ids
    /\ msgs[last.mid].deleted
    /\ msgs[last.mid].sender = last.user
    /\ msgs[last.mid].content = NewText

\* C18: the write of a successful edit leaves the stored message with the
\* edit's content and edited = TRUE; edited, once true, stays true; and the
\* content of a message changes only in the write of an edit of that
\* message, so every read shows the content of the edit whose write
\* completed last.
C18_EditTakesEffect ==
    [][/\ \A p \in Procs :
            (EditSave(p) /\ clock' = clock + 1)
               => /\ msgs'[h[p].mid].content = h[p].content
                  /\ msgs'[h[p].mid].edited
       /\ \A i \in Ids :
            /\ msgs[i].edited => msgs'[i].edited
            /\ msgs'[i].content /= msgs[i].content
                  => \E p \in Procs : EditSave(p) /\ h[p].mid = i]_vars

\* Two edits of one message were both written and broadcast, and the
\* message holds the content of an edit.
C18_Witness ==
    /\ Len(msgs) = 1
    /\ msgs[1].edited
    /\ msgs[1].content = "c2"
    /\ \E j, k \in 1..Len(events) :
          /\ events[j].name = "messageEdited" /\ events[j].w = 2
          /\ events[k].name = "messageEdited" /\ events[k].w = 3

C20_TypingToOthersOnly ==
    [][\A c \in Conns, u \in Users, g \in Groups :
          UserTyping(c, u, g) =>
             /\ msgs' = msgs
             /\ received'[c] = received[c]
             /\ \A d \in Conns \ {c} :
                   IF connected[d] /\ g \in rooms[d]
                   THEN /\ Len(received'[d]) = Len(received[d]) + 1
                        /\ SubSeq(received'[d], 1, Len(received[d])) = received[d]
                        /\ received'[d][Len(received'[d])].name = "user typing"
                        /\ received'[d][Len(received'[d])].room = g
                        /\ received'[d][Len(received'[d])].user = u
                   ELSE received'[d] = received[d]]_vars

\* Both connections joined the room and received a chat message; then k1
\* sent 'user typing', which reached k2 and not k1.
C20_Witness ==
    /\ nroom = 2
    /\ \A c \in Conns : connected[c] /\ "g1" \in rooms[c]
    /\ Len(events) = 2
    /\ events[1].name = "chat message"
    /\ events[2].name = "user typing"
    /\ received["k1"] = <<events[1]>>
    /\ received["k2"] = events

\* C21: a socket 'read receipt' for a stored message emits nothing while its
\* markAsRead write is outstanding; when the write has completed the user is
\* in the message's readBy and the same step emits exactly one 'messageRead'
\* event for the group's room, which every connection in that room receives,
\* the connection that sent the receipt included.  A receipt whose write
\* fails emits nothing.
InRoom(d, g) == connected[d] /\ g \in rooms[d]

ReadEventTo(g, mid, u) ==
    /\ Len(events') = Len(events) + 1
    /\ events'[Len(events')].name = "messageRead"
    /\ events'[Len(events')].room = g
    /\ events'[Len(events')].mid = mid
    /\ events'[Len(events')].user = u
    /\ SubSeq(events', 1, Len(events)) = events
    /\ \A d \in Conns :
          received'[d] = IF InRoom(d, g)
                         THEN Append(received[d], events'[Len(events')])
                         ELSE received[d]

C21_ReadReceiptThenBroadcast ==
    [][/\ \A c \in Conns, lid \in LogicalIds, u \in Users, g \in Groups :
            (SocketReadReceipt(c, lid, u, g) /\ ByLogicalId(lid) /= 0)
            => \/ /\ Includes(msgs[ByLogicalId(lid)].readBy, u)
                  /\ ReadEventTo(g, ByLogicalId(lid), u)
               \/ /\ UNCHANGED <<events, received>>
                  /\ \/ last'.status = 500
                     \/ \E p \in Procs :
                          /\ StepOf(p)
                          /\ h'[p].op = "readReceipt" /\ h'[p].conn = c
       /\ \A p \in Procs :
            (StepOf(p) /\ h[p].op = "readReceipt")
            => \/ /\ last'.status = 200
                  /\ Includes(msgs'[h[p].mid].readBy, h[p].user)
                  /\ ReadEventTo(h[p].group, h[p].mid, h[p].user)
                  /\ InRoom(h[p].conn, h[p].group)
                       => received'[h[p].conn] /= received[h[p].conn]
               \/ /\ last'.status = 500
                  /\ UNCHANGED <<msgs, events, received>>]_vars

\* Both connections are in the room, one of them sent the receipt: the
\* write is acknowledged, the reader is listed and both hold the event.
C21_Witness ==
    /\ Len(events) = 2
    /\ events[2].name = "messageRead" /\ events[2].w > 0
    /\ last.op = "readReceipt" /\ last.status = 200
    /\ Includes(msgs[events[2].mid].readBy, events[2].user)
    /\ \A d \in Conns : received[d] = events

\* C22: a socket 'read receipt' whose messageId is the id of no stored
\* message changes no message, emits no event, delivers nothing to any
\* connection (the sending one included) and leaves no handler suspended; it
\* is only logged.
C22_ReceiptForUnknownDropped ==
    [][\A c \in Conns, lid \in LogicalIds, u \in Users, g \in Groups :
          (SocketReadReceipt(c, lid, u, g)
             /\ ~\E i \in Ids : msgs[i].id = lid)
          => /\ UNCHANGED <<msgs, events, received, h>>
             /\ last'.op = "readReceipt"
             /\ last'.status \in {404, 500}]_vars

\* A message is stored and was delivered to the room; the receipt that
\* followed named another id and was logged as not found.
C22_Witness ==
    /\ nreq = 2 /\ Len(msgs) = 1 /\ Len(events) = 1
    /\ last.op = "readReceipt" /\ last.status = 404
    /\ msgs[1].readBy = <<>>
    /\ \E c \in Conns : rooms[c] /= {} /\ received[c] = events

\* C23: a disconnect leaves the connection in no room and changes no stored
\* message; from then on the connection stays disconnected, stays in no room
\* and is delivered no event, whatever handler emits it, the handlers whose
\* store write was outstanding when the connection disconnected included.
C23_NothingAfterDisconnect ==
    [][\A c \in Conns :
          /\ Disconnect(c) => /\ rooms'[c] = {}
                              /\ UNCHANGED <<msgs, received, events>>
          /\ ~connected[c] => /\ ~connected'[c]
                              /\ rooms'[c] = {}
                              /\ received'[c] = received[c]]_vars

\* Connection k1 was in the room and received an event, sent a read receipt
\* and disconnected while the receipt's write was outstanding.
C23_Witness ==
    /\ ~connected["k1"] /\ rooms["k1"] = {}
    /\ received["k1"] /= <<>>
    /\ \E p \in Procs : /\ h[p].op = "readReceipt" /\ h[p].pc = "save"
                         /\ h[p].conn = "k1"

\* C24: an event emitted to the room of group G with io.to is delivered to
\* exactly the connections whose room set contains G when the emit runs: a
\* connection that joined G receives the events emitted from then on, one
\* that left G receives none until it joins again, and a step that emits
\* nothing delivers nothing.  A typing event (socket.to) reaches no
\* connection outside the room.
C24_DeliveredToSubscribers ==
    [][/\ Len(events') = Len(events) => received' = received
       /\ \A e \in NewEvents, d \in Conns :
            /\ Len(events') = Len(events) + 1
            /\ e.name /= "user typing"
                 => received'[d] = IF e.room \in rooms[d]
                                   THEN Append(received[d], e)
                                   ELSE received[d]
            /\ e.name = "user typing"
                 => /\ e.room \notin rooms[d] => received'[d] = received[d]
                    /\ received'[d] \in {received[d], Append(received[d], e)}]_vars

\* Connection k1 joined the room, received the first message, left the room
\* and was not delivered the second message.
C24_Witness ==
    /\ nroom = 2 /\ connected["k1"] /\ rooms["k1"] = {}
    /\ Len(events) = 2
    /\ \A k \in 1..2 : events[k].name \in MessageEvents
    /\ received["k1"] = <<events[1]>>

\* C25: two sends of the same content by the same user to the same group,
\* one over HTTP and one over the socket, emit events of the same name that
\* carry the same message fields, and store messages that agree in every
\* field but their identity and creation time (compared while neither has
\* been soft-deleted).
SameSend(a, b) ==
    /\ a.group = b.group /\ a.sender = b.sender /\ a.content = b.content
    /\ a.type = b.type /\ a.replyTo = b.replyTo
    /\ ~a.deleted /\ ~b.deleted

AsStored(m) == [m EXCEPT !._id = 0, !.id = None, !.createdAt = 0]

C25_SendPathsIndistinguishable ==
    \A j, k \in 1..Len(events) :
        (/\ events[j].name \in MessageEvents
         /\ events[k].name \in MessageEvents
         /\ SameSend(msgs[events[j].mid], msgs[events[k].mid]))
        => /\ events[j].name = events[k].name
           /\ AsStored(msgs[events[j].mid]) = AsStored(msgs[events[k].mid])

\* C26: with no write to the collection, a list answered with success for a
\* positive page p and a positive limit L returns, of the N non-deleted
\* messages of the group taken in ascending createdAt order, those at
\* positions (p-1)*L+1 .. min(p*L, N), in that order; pagination.total is N
\* and pagination.pages is the least number of pages of L that hold N.
Answer200(op) == last.op = op /\ last.status = 200

C26_PageOfList ==
    (Answer200("list") /\ last.pageNo > 0 /\ last.limit > 0)
    => LET live == {i \in Ids : msgs[i].group = last.group /\ ~msgs[i].deleted}
           N == Cardinality(live)
           lo == (last.pageNo - 1) * last.limit + 1
           hi == Min(last.pageNo * last.limit, N)
       IN /\ Len(last.page) = IF hi >= lo THEN hi - lo + 1 ELSE 0
          /\ \A k \in 1..Len(last.page) :
                /\ last.page[k] \in live
                /\ Rank(live, last.page[k]) = lo + k - 1
          /\ last.total = N
          /\ last.pages * last.limit >= N
          /\ (last.pages - 1) * last.limit < N

\* The first page of 50 of a group with 120 non-deleted messages: 50
\* messages, total 120, 3 pages.
C26_Witness ==
    /\ Answer200("list") /\ last.pageNo = 1 /\ last.limit = 50
    /\ Len(last.page) = 50
    /\ last.total = MaxStored - 1 /\ last.total >= 120
    /\ last.pages = 3

\* C27: a list request whose page parameter is not a positive integer
\* (absent, not a number, zero or negative) is handled with page 1, and one
\* whose limit parameter is not a positive integer is handled with limit 50;
\* the query such a request issues is one the store answers (its skip is not
\* negative), so the request is not answered with an error on account of
\* its parameters.
PositiveQueries == {"1", "2", "3", "50", "100"}

C27_BadQueryMeansDefault ==
    [][\A u \in Users, g \in Groups, pageQ \in PageQueries,
          limitQ \in LimitQueries, p \in Procs :
          (HttpList(u, g, pageQ, limitQ) /\ StepOf(p))
          => /\ pageQ \notin PositiveQueries => h'[p].pageNo = DefaultPage
             /\ limitQ \notin PositiveQueries => h'[p].limit = DefaultLimit
             /\ (h'[p].pageNo - 1) * h'[p].limit >= 0]_vars

\* C28: whatever limit the client asks for, a list answered with success
\* returns at most as many messages as the server-side cap on limit, the
\* documented 50.
ServerLimitCap == DefaultLimit

C28_ListWithinCap ==
    Answer200("list") => Len(last.page) <= ServerLimitCap

\* C29: a stored message keeps its _id, id, group, sender, type, mediaUrl,
\* mediaType, replyTo and createdAt in every later state.  A step of an edit
\* changes nothing of any message but content, edited and editedAt; a step
\* of a soft-delete nothing but deleted and deletedBy; a step of a mark-read
\* (HTTP mark-read, socket read receipt, list) nothing but readBy; any other
\* step changes no stored message.  (updatedAt is not represented: no code
\* reads it.)
ImmutableFields ==
    {"_id", "id", "group", "sender", "type", "mediaUrl", "mediaType",
     "replyTo", "createdAt"}

MayChange(op) ==
    CASE op = "edit" -> {"content", "edited", "editedAt"}
      [] op = "delete" -> {"deleted", "deletedBy"}
      [] op \in {"markRead", "readReceipt", "list"} -> {"readBy"}
      [] OTHER -> {}

Changed(i) == {f \in DOMAIN msgs[i] : msgs'[i][f] /= msgs[i][f]}

C29_FrameOfMutations ==
    [][\A i \in Ids :
          /\ i \in 1..Len(msgs')
          /\ Changed(i) \cap ImmutableFields = {}
          /\ \/ Changed(i) = {}
             \/ \E p \in Procs : /\ StepOf(p)
                                  /\ Changed(i) \subseteq MayChange(h[p].op)]_vars

\* A message was edited and then soft-deleted and still has the identity,
\* group, sender, type and creation time it was stored with.
C29_Witness ==
    /\ Len(msgs) = 1
    /\ msgs[1].edited /\ msgs[1].deleted /\ msgs[1].content \in EditTexts
    /\ msgs[1]._id = 1 /\ msgs[1].id = "i1" /\ msgs[1].group = "g1"
    /\ msgs[1].sender = "u1" /\ msgs[1].type = "text"
    /\ msgs[1].createdAt = 1

\* C30: a leave request by the creator of a group, who has not transferred
\* its ownership, is answered 403 and leaves the members of the group as
\* they are; the creator of a group is therefore always one of its members.
C30_CreatorCannotLeave ==
    [][\A g \in Groups :
          /\ \A u \in Users :
                (GroupLeave(u, g) /\ ReqUserId(u) = Creator(g))
                => last'.status = 403 /\ UNCHANGED members
          /\ Creator(g) \in members[g] => Creator(g) \in members'[g]]_vars

\* C31: every stored message has been broadcast to its room exactly once
\* ('chat message' or 'newMessage'), unless the create handler that stored
\* it is still running and has not emitted yet; no handler ends, with
\* whatever response, having stored a message it did not broadcast.
BroadcastsOf(i) ==
    {k \in 1..Len(events) : events[k].name \in MessageEvents /\ events[k].mid = i}

CreatingStill(i) ==
    \E p \in Procs : h[p].op = "create" /\ h[p].mid = i /\ h[p].pc /= "idle"

SaveAcked(p) == StepOf(p) /\ h[p].pc = "save" /\ clock' = clock + 1

C32_MutationsDoNotOverwrite ==
    [][\A p \in Procs :
          SaveAcked(p)
          => LET i == h[p].mid
                 op == h[p].op
             IN /\ \A f \in DOMAIN msgs[i] \ MayChange(op) :
                      msgs'[i][f] = msgs[i][f]
                /\ op = "edit" => /\ msgs'[i].content = h[p].content
                                  /\ msgs'[i].edited
                /\ op = "delete" => /\ msgs'[i].deleted
                                    /\ msgs'[i].deletedBy = ReqUserId(h[p].user)
                /\ op \in {"markRead", "readReceipt"}
                     => Includes(msgs'[i].readBy, h[p].user)
                /\ msgs[i].deleted => msgs'[i].deleted
                /\ \A k \in 1..Len(msgs[i].readBy) :
                      Includes(msgs'[i].readBy, msgs[i].readBy[k])]_vars

\* The edit loaded the message first and saved last, after a soft-delete
\* and a mark-read had saved: the message is edited, deleted and read.
C32_Witness ==
    /\ msgs[1].edited /\ msgs[1].content \in EditTexts
    /\ msgs[1].deleted /\ Includes(msgs[1].readBy, "u1")
    /\ msgs[1].editedAt = 2
    /\ \E d, r, e \in 1..Len(events) :
          /\ events[d].name = "messageDeleted"
          /\ events[r].name = "messageRead" /\ events[r].w > 0
          /\ events[e].name = "messageEdited"
          /\ events[e].w > events[d].w /\ events[e].w > events[r].w

\* C33: for every message at most one 'messageDeleted' event is ever
\* emitted, and a delete request is answered with success only when the
\* message was not deleted just before its save: of several delete requests
\* for one message, concurrent or not, at most one succeeds.
DeletedEventsOf(i) ==
    {k \in 1..Len(events) : events[k].name = "messageDeleted" /\ events[k].mid = i}

C33_AtMostOneDelete ==
    [][/\ \A i \in 1..Len(msgs') : Cardinality(DeletedEventsOf(i))' <= 1
       /\ \A p \in Procs :
            (StepOf(p) /\ h[p].op = "delete" /\ last'.status = 200)
            => ~msgs[h[p].mid].deleted]_vars

RepliesTo(i) == {j \in Ids : j /= i /\ msgs[j].replyTo = i}

C35_RepliesSurviveParent ==
    [][\A p \in Procs :
          /\ (SaveAcked(p) /\ h[p].op = "delete")
                => /\ msgs'[h[p].mid].deleted
                   /\ \A j \in RepliesTo(h[p].mid) : msgs'[j] = msgs[j]
          /\ (ListFind(p) /\ Answered(p))
                => \A i \in Ids : \A j \in RepliesTo(i) :
                      (/\ msgs[i].deleted
                       /\ msgs[j].group = h[p].group /\ ~msgs[j].deleted)
                      => Count(LoadedPage(p), j) = 1]_vars

\* The parent was soft-deleted; the list that followed returned the reply
\* alone, with its replyTo still naming the parent.
C35_Witness ==
    /\ last.op = "list" /\ last.status = 200
    /\ last.page = <<2>> /\ last.total = 1
    /\ msgs[1].deleted
    /\ msgs[2].replyTo = 1 /\ ~msgs[2].deleted

\* C36: no step of a list request adds, removes or reorders a stored
\* message, and none changes a field of a message other than readBy; readBy
\* changes only in the step that answers the list with success, only for
\* messages of the returned page, and only by appending the requesting
\* user.  Messages outside the returned page are left as they are.
ListStep(p) == StepOf(p) /\ (h[p].op = "list" \/ h'[p].op = "list")

C36_ListFrame ==
    [][\A p \in Procs :
          ListStep(p)
          => /\ Len(msgs') = Len(msgs)
             /\ \A i \in Ids :
                   \/ msgs'[i] = msgs[i]
                   \/ /\ Changed(i) = {"readBy"}
                      /\ h'[p].pc = "idle" /\ last'.status = 200
                      /\ Count(last'.page, i) = 1
                      /\ msgs'[i].readBy = Append(msgs[i].readBy, h[p].user)]_vars

\* A list was answered with the reply as its page while the parent, outside
\* the page, had been soft-deleted: the reply is stored as it was before the
\* list, the parent as the soft-delete left it.
C36_Witness ==
    /\ last.op = "list" /\ last.status = 200 /\ last.page = <<2>>
    /\ msgs = [Thread EXCEPT ![1].deleted = TRUE, ![1].deletedBy = "u1"]

====
